---- MODULE Spec2Model ----
(* Model of src/lib/Compiler.ts: the Compiler session coordinator.          *)
(* One Compiler object: constructor validation, exec() (pty output handler, *)
(* debounce timers, 500 ms status poll), push(), stop(), resize() and       *)
(* _cleanUp().  Strings are sequences of tokens; the prompt marker `arrow`  *)
(* and the word "minute" are single tokens.                                 *)
EXTENDS Integers, Sequences, FiniteSets, Bags, TLC

VARIABLES phase, opts, error, proc, env, sentStep1, sentStep2,
          receivedFinalArrow, timers, isLaunched, sentDone, checkInterval,
          inflight, stopTimers, rmCalls, launchedCount, doneLog,
          written, fx

vars == <<phase, opts, error, proc, env, sentStep1, sentStep2,
          receivedFinalArrow, timers, isLaunched, sentDone, checkInterval,
          inflight, stopTimers, rmCalls, launchedCount, doneLog,
          written, fx>>

\* ---------------------------------------------------------------- bounds
\* pending debounce timers (setTimeout 100 ms) at one time
MaxTimers == 2
\* status probes started and not yet answered
MaxInflight == 2
\* pending stop() grace timers (setTimeout 200 ms) at one time
MaxStops == 1
\* `docker rm -f` calls issued in one session
MaxRm == 2

\* ---------------------------------------------------- JavaScript values
Undef == [t |-> "undefined", n |-> 0, s |-> <<>>]
Num(k) == [t |-> "number", n |-> k, s |-> <<>>]
Str(x) == [t |-> "string", n |-> 0, s |-> x]

\* !v
Falsy(v) == \/ v.t = "undefined"
            \/ v.t = "number" /\ v.n = 0
            \/ v.t = "string" /\ v.s = <<>>

\* ------------------------------------------------------ string helpers
RECURSIVE Includes(_, _)
Includes(str, tok) ==
    IF str = <<>> THEN FALSE
    ELSE IF Head(str) = tok THEN TRUE ELSE Includes(Tail(str), tok)

\* String.prototype.split("."): the pieces between "." tokens
RECURSIVE SplitDot(_, _, _)
SplitDot(str, cur, acc) ==
    IF str = <<>> THEN Append(acc, cur)
    ELSE IF Head(str) = "." THEN SplitDot(Tail(str), <<>>, Append(acc, cur))
    ELSE SplitDot(Tail(str), Append(cur, Head(str)), acc)

\* Array.prototype.pop: the array without its last element
Pop(arr) == IF arr = <<>> THEN <<>> ELSE SubSeq(arr, 1, Len(arr) - 1)

\* Array.prototype.join(".")
RECURSIVE JoinDot(_)
JoinDot(arr) ==
    IF arr = <<>> THEN <<>>
    ELSE IF Len(arr) = 1 THEN arr[1]
    ELSE arr[1] \o <<".">> \o JoinDot(Tail(arr))

\* String.prototype.replace("{}", by): the first "{}" only
RECURSIVE ReplaceFirst(_, _)
ReplaceFirst(str, by) ==
    IF str = <<>> THEN <<>>
    ELSE IF Head(str) = "{}" THEN by \o Tail(str)
    ELSE <<Head(str)>> \o ReplaceFirst(Tail(str), by)

\* variant: only the part before the first "." is kept
FileWithoutExt_FirstPart(mainFile) == SplitDot(mainFile, <<>>, <<>>)[1]

FileWithoutExt(mainFile) == JoinDot(Pop(SplitDot(mainFile, <<>>, <<>>)))

\* ------------------------------------------------------------- catalog
\* langList.json: index 0 has a single command, index 1 has a post-step
compilers == << << <<"python3">> >>,
                << <<"gcc", "-o", "out">>, <<"./", "{}">> >> >>

Runner(langNum) == compilers[langNum + 1]

arrow == "arrow"

Step1Text(runner, mainFile) == runner[1] \o <<" ">> \o mainFile \o <<"\r">>

Step2Text(runner, mainFile) ==
    IF Len(runner) >= 2 /\ runner[2] # <<>>
    THEN ReplaceFirst(runner[2], FileWithoutExt(mainFile)) \o <<"\r">>
    ELSE <<>>

step1 == Step1Text(Runner(opts.langNum.n), opts.mainFile.s)
step2 == Step2Text(Runner(opts.langNum.n), opts.mainFile.s)

\* variant: the step2 flag starts false whatever the catalog entry
InitSentStep2_Never(s2text) == FALSE

\* sentStep2 = !step2
InitSentStep2(s2text) == s2text = <<>>

Del == <<"DEL">>

\* ------------------------------------------------------------ effects
\* one observable effect of a handler: an emitted event, a pty call, an
\* external command or a timer call; fx holds the effects of the handler
\* that ran last, in program order
Fx(k, v) == [k |-> k, v |-> v]
Inc(e) == Fx("inc", e)

\* --------------------------------------------------------- constructor
ValidLangNum(v) == ~((Falsy(v) /\ ~(v.t = "number" /\ v.n = 0)) \/ v.t # "number")

\* variant: the typeof test of a string parameter is left out
ValidString_NoType(v) == ~Falsy(v)

ValidString(v) == ~(Falsy(v) \/ v.t # "string")

\* the field named by the first failing parameter check, "" when none fails
ConstructError(o) ==
    IF ~ValidLangNum(o.langNum) THEN "langNum"
    ELSE IF ~ValidString(o.mainFile) THEN "mainFile"
    ELSE IF ~ValidString(o.pathToFiles) THEN "pathToFiles"
    ELSE IF ~ValidString(o.containerName) THEN "containerName"
    ELSE ""

LangNumValues == {Undef, Num(0), Num(1), Str(<<"1">>)}
MainFileValues == {Undef, Str(<<>>), Num(5), Str(<<"main", ".", "test", ".", "c">>)}
PathValues == {Undef, Num(1), Str(<<"/srv/files">>)}
NameValues == {Undef, Str(<<>>), Str(<<"cc1">>)}

OptsValues == [langNum : LangNumValues, mainFile : MainFileValues,
               pathToFiles : PathValues, containerName : NameValues]

\* ------------------------------------------------------ step sequencer
\* variant: the fast path does not look at the step1 flag
Rule1_NoStep1(e, s1, s2) == Includes(e, arrow) /\ s2

Rule1(e, s1, s2) == Includes(e, arrow) /\ s1 /\ s2

Rule2(e, s1) == ~s1 /\ e = <<arrow>>

\* variant: rule 3 does not look at the step1 flag
Rule3_NoStep1(e, s1, s2) == ~s2 /\ Includes(e, arrow)

Rule3(e, s1, s2) == ~s2 /\ s1 /\ Includes(e, arrow)

\* variant: rule 4 tests the step1 flag the wrong way round
Rule4_WrongFlag(e, s1, s2, rfa) == (~s2 /\ ~s1 /\ ~Includes(e, arrow)) \/ rfa

Rule4(e, s1, s2, rfa) == (~s2 /\ s1 /\ ~Includes(e, arrow)) \/ rfa

\* the branch of the onData handler taken for chunk e (0: falls through)
RuleOf(e, s1, s2, rfa) ==
    IF Rule1(e, s1, s2) THEN 1
    ELSE IF Rule2(e, s1) THEN 2
    ELSE IF Rule3(e, s1, s2) THEN 3
    ELSE IF Rule4(e, s1, s2, rfa) THEN 4
    ELSE 0

\* variant: the fast path returns before the chunk is forwarded
OnDataFx_IncAfter(e, s1, s2, rfa) ==
    CASE RuleOf(e, s1, s2, rfa) = 1 -> <<Fx("rm", <<>>)>>
      [] RuleOf(e, s1, s2, rfa) = 2 -> <<Inc(e), Fx("setTimeout", <<"s1">>)>>
      [] RuleOf(e, s1, s2, rfa) = 3 -> <<Inc(e), Fx("setTimeout", <<"s2">>)>>
      [] RuleOf(e, s1, s2, rfa) = 4 -> <<Inc(e), Fx("write", Del)>>
      [] OTHER -> <<Inc(e)>>

\* the effects of the onData handler for chunk e, in program order
OnDataFx(e, s1, s2, rfa) ==
    <<Inc(e)>> \o
    CASE RuleOf(e, s1, s2, rfa) = 1 -> <<Fx("rm", <<>>)>>
      [] RuleOf(e, s1, s2, rfa) = 2 -> <<Fx("setTimeout", <<"s1">>)>>
      [] RuleOf(e, s1, s2, rfa) = 3 -> <<Fx("setTimeout", <<"s2">>)>>
      [] RuleOf(e, s1, s2, rfa) = 4 -> <<Fx("write", Del)>>
      [] OTHER -> <<>>

\* chunks the pty can deliver: the marker alone, text, text before a marker
Chunks == {<<arrow>>, <<"x">>, <<"x", arrow>>}

\* ---------------------------------------------------- lifecycle monitor
\* stdout of `docker ps | grep <name>` for the environment's state
ProbeOut(e, name) ==
    CASE e = "up" -> <<"Up", "seconds">> \o name
      [] e = "old" -> <<"Up", "minute">> \o name
      [] OTHER -> <<>>

\* every output a probe can produce
Outputs == {ProbeOut(e, name.s) : e \in {"none", "up", "old", "gone"},
                                  name \in NameValues}

\* out.indexOf("minute") > -1
TimedOut(out) == Includes(out, "minute")

\* variant: the launch branch is never taken
LaunchCond_Never(out, launched) == FALSE

\* variant: the launched flag is not consulted
LaunchCond_NoFlag(out, launched) == out # <<>>

\* out && !isLaunched
LaunchCond(out, launched) == out # <<>> /\ ~launched

\* variant: the sentDone flag is not consulted
DoneCond_NoGuard(out, launched, done) ==
    (out = <<>> /\ launched) \/ TimedOut(out)

\* variant: !sentDone binds to the disappearance test only
DoneCond_GuardAbsentOnly(out, launched, done) ==
    (out = <<>> /\ launched /\ ~done) \/ TimedOut(out)

\* variant: the runtime ceiling is not a completion trigger
DoneCond_NoTimeout(out, launched, done) == (out = <<>> /\ launched) /\ ~done

\* ((!out && isLaunched) || timedOut) && !sentDone
DoneCond(out, launched, done) ==
    ((out = <<>> /\ launched) \/ TimedOut(out)) /\ ~done

\* variant: _cleanUp leaves the interval running
CleanUpInterval_Keep(iv) == iv

\* _cleanUp: the polling timer after clearInterval
CleanUpInterval(iv) == FALSE

\* process.kill("1") on the pty process
Killed(p) == IF p = "alive" THEN "dead" ELSE p

\* ---------------------------------------------------------------- Init
Init ==
    /\ phase = "new"
    /\ opts \in OptsValues
    /\ error = ""
    /\ proc = "none"
    /\ env = "none"
    /\ sentStep1 = FALSE
    /\ sentStep2 = FALSE
    /\ receivedFinalArrow = FALSE
    /\ timers = <<>>
    /\ isLaunched = FALSE
    /\ sentDone = FALSE
    /\ checkInterval = FALSE
    /\ inflight = EmptyBag
    /\ stopTimers = 0
    /\ rmCalls = 0
    /\ launchedCount = 0
    /\ doneLog = <<>>
    /\ written = <<>>
    /\ fx = <<>>

\* ------------------------------------------------------------- actions
\* new Compiler(opts)
Construct ==
    /\ phase = "new"
    /\ error' = ConstructError(opts)
    /\ phase' = IF ConstructError(opts) = "" THEN "ready" ELSE "failed"
    /\ fx' = IF ConstructError(opts) = "" THEN <<>>
             ELSE <<Fx("throw", <<ConstructError(opts)>>)>>
    /\ UNCHANGED <<opts, proc, env, sentStep1, sentStep2, receivedFinalArrow,
                   timers, isLaunched, sentDone, checkInterval, inflight,
                   stopTimers, rmCalls, launchedCount, doneLog, written>>

\* exec(): spawn the pty, initialise the flags, start the poll; the caller
\* starts a session only on a coordinator it has not stopped before
Exec ==
    /\ phase = "ready"
    /\ stopTimers = 0 /\ rmCalls = 0
    /\ phase' = "running"
    /\ proc' = "alive"
    /\ sentStep1' = FALSE
    /\ sentStep2' = InitSentStep2(step2)
    /\ receivedFinalArrow' = FALSE
    /\ isLaunched' = FALSE
    /\ sentDone' = FALSE
    /\ checkInterval' = TRUE
    /\ fx' = <<Fx("spawn", <<>>), Fx("setInterval", <<>>)>>
    /\ UNCHANGED <<opts, error, env, timers, inflight, stopTimers, rmCalls, launchedCount, doneLog, written>>

\* process.onData(e)
OnData(e) ==
    /\ phase = "running"
    /\ proc = "alive"
    /\ LET r == RuleOf(e, sentStep1, sentStep2, receivedFinalArrow) IN
       /\ r = 1 => rmCalls < MaxRm
       /\ r \in {2, 3} => Len(timers) < MaxTimers
       /\ fx' = OnDataFx(e, sentStep1, sentStep2, receivedFinalArrow)
       /\ rmCalls' = IF r = 1 THEN rmCalls + 1 ELSE rmCalls
       /\ timers' = CASE r = 2 -> Append(timers, "s1")
                      [] r = 3 -> Append(timers, "s2")
                      [] OTHER -> timers
    /\ UNCHANGED <<phase, opts, error, proc, env, sentStep1, sentStep2,
                   receivedFinalArrow, isLaunched, sentDone, checkInterval,
                   inflight, stopTimers, launchedCount, doneLog, written>>

\* variant: a delayed delivery does not re-check its flag when it fires
FireSkips_Never(sent) == FALSE

\* if(sentStepN) { return; } at the top of a debounce timer callback
FireSkips(sent) == sent

\* variant: the step2 callback clears the step1 flag
FireStep_ClearsStep1 ==
    /\ timers # <<>>
    /\ timers' = Tail(timers)
    /\ IF Head(timers) = "s1"
       THEN /\ sentStep1' = TRUE
            /\ fx' = IF FireSkips(sentStep1) THEN <<>> ELSE <<Fx("write", step1)>>
            /\ written' = IF FireSkips(sentStep1) THEN written
                          ELSE Append(written, step1)
            /\ UNCHANGED sentStep2
       ELSE /\ sentStep2' = TRUE
            /\ sentStep1' = FALSE
            /\ fx' = IF FireSkips(sentStep2) THEN <<>> ELSE <<Fx("write", step2)>>
            /\ written' = IF FireSkips(sentStep2) THEN written
                          ELSE Append(written, step2)
    /\ UNCHANGED <<phase, opts, error, proc, env, receivedFinalArrow,
                   isLaunched, sentDone, checkInterval, inflight, stopTimers,
                   rmCalls, launchedCount, doneLog>>

\* the oldest pending debounce timer fires
FireStep ==
    /\ timers # <<>>
    /\ timers' = Tail(timers)
    /\ IF Head(timers) = "s1"
       THEN /\ sentStep1' = TRUE
            /\ fx' = IF FireSkips(sentStep1) THEN <<>> ELSE <<Fx("write", step1)>>
            /\ written' = IF FireSkips(sentStep1) THEN written
                          ELSE Append(written, step1)
            /\ UNCHANGED sentStep2
       ELSE /\ sentStep2' = TRUE
            /\ fx' = IF FireSkips(sentStep2) THEN <<>> ELSE <<Fx("write", step2)>>
            /\ written' = IF FireSkips(sentStep2) THEN written
                          ELSE Append(written, step2)
            /\ UNCHANGED sentStep1
    /\ UNCHANGED <<phase, opts, error, proc, env, receivedFinalArrow,
                   isLaunched, sentDone, checkInterval, inflight, stopTimers,
                   rmCalls, launchedCount, doneLog>>

\* the 500 ms interval fires: start one status probe
Tick ==
    /\ checkInterval
    /\ BagCardinality(inflight) < MaxInflight
    /\ inflight' = inflight (+) SetToBag({ProbeOut(env, opts.containerName.s)})
    /\ fx' = <<Fx("probe", <<>>)>>
    /\ UNCHANGED <<phase, opts, error, proc, env, sentStep1, sentStep2,
                   receivedFinalArrow, timers, isLaunched, sentDone,
                   checkInterval, stopTimers, rmCalls,
                   launchedCount, doneLog, written>>

\* the callback of one pending probe runs with its output `out`
ProbeResult(out) ==
    /\ BagIn(out, inflight)
    /\ inflight' = inflight (-) SetToBag({out})
    /\ IF LaunchCond(out, isLaunched)
       THEN /\ isLaunched' = TRUE
            /\ launchedCount' = launchedCount + 1
            /\ fx' = <<Fx("launched", <<>>)>>
            /\ UNCHANGED <<sentDone, doneLog, checkInterval, proc>>
       ELSE IF DoneCond(out, isLaunched, sentDone)
       THEN /\ doneLog' = Append(doneLog, TimedOut(out))
            /\ sentDone' = TRUE
            /\ checkInterval' = CleanUpInterval(checkInterval)
            /\ proc' = Killed(proc)
            /\ fx' = <<Fx("done", IF TimedOut(out) THEN <<"timedOut">> ELSE <<>>),
                       Fx("clearInterval", <<>>), Fx("kill", <<>>)>>
            /\ UNCHANGED <<isLaunched, launchedCount>>
       ELSE /\ fx' = <<>>
            /\ UNCHANGED <<isLaunched, launchedCount, sentDone, doneLog,
                           checkInterval, proc>>
    /\ UNCHANGED <<phase, opts, error, env, sentStep1, sentStep2,
                   receivedFinalArrow, timers, stopTimers, rmCalls,
                   written>>

\* push(text)
Push ==
    /\ phase \in {"ready", "running"}
    /\ fx' = IF proc = "none" THEN <<>>
             ELSE IF proc = "alive" THEN <<Fx("write", <<"text">>)>>
             ELSE <<Fx("warn", <<>>)>>
    /\ UNCHANGED <<phase, opts, error, proc, env, sentStep1, sentStep2,
                   receivedFinalArrow, timers, isLaunched, sentDone,
                   checkInterval, inflight, stopTimers, rmCalls,
                   launchedCount, doneLog, written>>

\* resize({cols, rows})
Resize ==
    /\ phase \in {"ready", "running"}
    /\ fx' = IF proc = "none" THEN <<>>
             ELSE IF proc = "alive" THEN <<Fx("resize", <<>>)>>
             ELSE <<Fx("warn", <<>>)>>
    /\ UNCHANGED <<phase, opts, error, proc, env, sentStep1, sentStep2,
                   receivedFinalArrow, timers, isLaunched, sentDone,
                   checkInterval, inflight, stopTimers, rmCalls,
                   launchedCount, doneLog, written>>

\* variant: stop() also runs _cleanUp and so cancels the poll
Stop_ClearsInterval ==
    /\ phase \in {"ready", "running"}
    /\ stopTimers < MaxStops
    /\ proc' = Killed(proc)
    /\ stopTimers' = stopTimers + 1
    /\ checkInterval' = FALSE
    /\ fx' = (IF proc = "none" THEN <<>> ELSE <<Fx("kill", <<>>)>>)
             \o <<Fx("setTimeout", <<"rm">>)>>
    /\ UNCHANGED <<phase, opts, error, env, sentStep1, sentStep2,
                   receivedFinalArrow, timers, isLaunched, sentDone,
                   inflight, rmCalls,
                   launchedCount, doneLog, written>>

\* stop(): kill the pty, remove the environment 200 ms later
Stop ==
    /\ phase \in {"ready", "running"}
    /\ stopTimers < MaxStops
    /\ proc' = Killed(proc)
    /\ stopTimers' = stopTimers + 1
    /\ fx' = (IF proc = "none" THEN <<>> ELSE <<Fx("kill", <<>>)>>)
             \o <<Fx("setTimeout", <<"rm">>)>>
    /\ UNCHANGED <<phase, opts, error, env, sentStep1, sentStep2,
                   receivedFinalArrow, timers, isLaunched, sentDone,
                   checkInterval, inflight, rmCalls,
                   launchedCount, doneLog, written>>

\* the grace timer of stop() fires: docker rm -f
FireStop ==
    /\ stopTimers > 0
    /\ rmCalls < MaxRm
    /\ stopTimers' = stopTimers - 1
    /\ rmCalls' = rmCalls + 1
    /\ fx' = <<Fx("rm", <<>>)>>
    /\ UNCHANGED <<phase, opts, error, proc, env, sentStep1, sentStep2,
                   receivedFinalArrow, timers, isLaunched, sentDone,
                   checkInterval, inflight, launchedCount, doneLog, written>>

\* ------------------------------------------------- environment's moves
\* an issued `docker rm -f` removes the running container
RmComplete ==
    /\ rmCalls > 0
    /\ env \in {"up", "old"}
    /\ env' = "gone"
    /\ UNCHANGED <<phase, opts, error, proc, sentStep1, sentStep2,
                   receivedFinalArrow, timers, isLaunched, sentDone,
                   checkInterval, inflight, stopTimers, rmCalls,
                   launchedCount, doneLog, fx, written>>

\* the container of `docker run` appears in the process table
EnvStart ==
    /\ phase = "running" /\ proc = "alive" /\ env = "none"
    /\ env' = "up"
    /\ UNCHANGED <<phase, opts, error, proc, sentStep1, sentStep2,
                   receivedFinalArrow, timers, isLaunched, sentDone,
                   checkInterval, inflight, stopTimers, rmCalls,
                   launchedCount, doneLog, fx, written>>

\* the container has been up for a minute: its status line says so
EnvAge ==
    /\ env = "up"
    /\ env' = "old"
    /\ UNCHANGED <<phase, opts, error, proc, sentStep1, sentStep2,
                   receivedFinalArrow, timers, isLaunched, sentDone,
                   checkInterval, inflight, stopTimers, rmCalls,
                   launchedCount, doneLog, fx, written>>

\* the container exits (its shell ends or the runtime reclaims it)
EnvExit ==
    /\ env \in {"up", "old"}
    /\ env' = "gone"
    /\ UNCHANGED <<phase, opts, error, proc, sentStep1, sentStep2,
                   receivedFinalArrow, timers, isLaunched, sentDone,
                   checkInterval, inflight, stopTimers, rmCalls,
                   launchedCount, doneLog, fx, written>>

\* the docker client behind the pty exits with its container
ProcExit ==
    /\ proc = "alive" /\ env = "gone"
    /\ proc' = "dead"
    /\ UNCHANGED <<phase, opts, error, env, sentStep1, sentStep2,
                   receivedFinalArrow, timers, isLaunched, sentDone,
                   checkInterval, inflight, stopTimers, rmCalls,
                   launchedCount, doneLog, fx, written>>

Next ==
    \/ Construct
    \/ Exec
    \/ \E e \in Chunks : OnData(e)
    \/ FireStep
    \/ Tick
    \/ \E out \in Outputs : ProbeResult(out)
    \/ Push
    \/ Resize
    \/ Stop
    \/ FireStop
    \/ RmComplete
    \/ EnvStart
    \/ EnvAge
    \/ EnvExit
    \/ ProcExit

Spec == Init /\ [][Next]_vars

\* the interval keeps firing, every probe callback and timer runs, issued
\* removals complete, and a container that stays up reaches the minute mark
Fairness ==
    /\ WF_vars(Tick)
    /\ \A out \in Outputs : WF_vars(ProbeResult(out))
    /\ WF_vars(FireStep)
    /\ WF_vars(FireStop)
    /\ WF_vars(RmComplete)
    /\ WF_vars(EnvAge)

FairSpec == Spec /\ Fairness

\* only the debounce timers are required to run
TimerFairSpec == Spec /\ WF_vars(FireStep)

\* ============================================================== claims
HasPostStep == phase = "running" /\ step2 # <<>>
NoPostStep == phase = "running" /\ step2 = <<>>

\* C1: in one session the done event is emitted at most once, whatever
\* probe results arrive and however many were in flight together.
C1_DoneAtMostOnce == Len(doneLog) <= 1

\* done was emitted while another completion-triggering result is in flight
C1_Witness ==
    /\ Len(doneLog) = 1
    /\ \E out \in BagToSet(inflight) :
          out = <<>> \/ Includes(out, "minute")

\* C2: every session eventually emits done once its environment has left by
\* any exit path (removal, runtime ceiling, stop), also when it left before
\* any probe saw it running.
C2_DoneEventually ==
    (phase = "running" /\ env \in {"old", "gone"}) ~> (Len(doneLog) = 1)

\* C3: launched is emitted at most once, and only by the handling of a
\* probe result whose output is non-empty.
C3_LaunchedOnceAfterSeen ==
    /\ [](launchedCount <= 1)
    /\ [][launchedCount' # launchedCount =>
            /\ launchedCount' = launchedCount + 1
            /\ \E out \in BagToSet(inflight) :
                  out # <<>> /\ inflight' = inflight (-) SetToBag({out})]_vars

C3_Witness == launchedCount = 1 /\ fx = <<Fx("launched", <<>>)>>

\* C4: with a post-step, the step2 flag turns true only in a state where the
\* step1 flag is true, and step2 is never written before step1.
C4_Step2AfterStep1 ==
    /\ [](HasPostStep => (sentStep2 => sentStep1))
    /\ [][HasPostStep =>
            /\ (~sentStep2 /\ sentStep2') => sentStep1
            /\ (written' # written /\ written'[Len(written')] = step2)
                  => (sentStep1 /\ written # <<>> /\ written[1] = step1)]_vars

C4_Witness ==
    HasPostStep /\ sentStep1 /\ sentStep2 /\ fx = <<Fx("write", step2)>>

\* C5 as stated: a chunk that arrives with step1 sent and step2 unsent and
\* is not itself the prompt marker causes one erase and schedules nothing.
C5_Original ==
    [][\A e \in Chunks :
          (OnData(e) /\ sentStep1 /\ ~sentStep2 /\ e # <<arrow>>) =>
              (fx' = <<Inc(e), Fx("write", Del)>> /\ timers' = timers)]_vars

\* C5: a chunk that arrives with step1 sent and step2 unsent and does not
\* contain the prompt marker causes one erase, and no command is written
\* or scheduled.
C5_EraseBetweenSteps ==
    [][\A e \in Chunks :
          (OnData(e) /\ sentStep1 /\ ~sentStep2 /\ ~Includes(e, arrow)) =>
              /\ fx' = <<Inc(e), Fx("write", Del)>>
              /\ timers' = timers
              /\ written' = written]_vars

C5_Witness ==
    sentStep1 /\ ~sentStep2 /\ fx = <<Inc(<<"x">>), Fx("write", Del)>>

\* C6: without a post-step the step2 flag is true from the start of the
\* session, the sequencer writes one command only (step1), and both flags
\* are true as soon as step1 is delivered.
C6_SingleStep ==
    NoPostStep =>
        /\ sentStep2
        /\ written = (IF sentStep1 THEN <<step1>> ELSE <<>>)
        /\ \A j \in DOMAIN timers : timers[j] = "s1"

C6_Witness == NoPostStep /\ sentStep1 /\ sentStep2 /\ written = <<step1>>

Fields == {"langNum", "mainFile", "pathToFiles", "containerName"}

\* the field is absent or not of the type the constructor requires
BadType(o, f) == o[f].t # (IF f = "langNum" THEN "number" ELSE "string")

\* the field is absent, mistyped or an empty string
Rejected(o, f) == BadType(o, f) \/ (f # "langNum" /\ o[f].s = <<>>)

NoResources ==
    /\ proc = "none" /\ ~checkInterval /\ timers = <<>> /\ inflight = EmptyBag
    /\ stopTimers = 0 /\ rmCalls = 0 /\ env = "none"

\* C7: construction with a required field missing or mistyped fails with an
\* error naming an offending field (that field when it is the only one) and
\* starts no process, pty or timer.
C7_ValidationTotal ==
    (phase # "new" /\ \E f \in Fields : BadType(opts, f)) =>
        /\ phase = "failed"
        /\ error \in Fields
        /\ Rejected(opts, error)
        /\ \A f \in Fields :
              (BadType(opts, f) /\ \A g \in Fields \ {f} : ~Rejected(opts, g))
                  => error = f
        /\ fx = <<Fx("throw", <<error>>)>>
        /\ NoResources

C7_Witness ==
    phase = "failed" /\ error = "pathToFiles" /\ BadType(opts, "pathToFiles")

\* C8 as stated: the first absent probe result after a present one emits
\* done with timedOut false and cancels the polling timer.
C8_Original ==
    [][(ProbeResult(<<>>) /\ isLaunched /\ \A j \in DOMAIN doneLog : doneLog[j])
          => (doneLog' = Append(doneLog, FALSE) /\ ~checkInterval')]_vars

\* C8: the first absent probe result after a present one, when done has not
\* been emitted already, emits done with timedOut false; once it is handled
\* the polling timer is cancelled and no further probe is started.
C8_AbsentAfterPresent ==
    /\ [][(ProbeResult(<<>>) /\ isLaunched) =>
                /\ ~sentDone => doneLog' = Append(doneLog, FALSE)
                /\ ~sentDone => fx'[1] = Fx("done", <<>>)
                /\ ~checkInterval'
                /\ sentDone']_vars
    /\ [][sentDone => (~checkInterval'
                     /\ BagCardinality(inflight') <= BagCardinality(inflight))]_vars

C8_Witness ==
    /\ isLaunched /\ doneLog = <<FALSE>> /\ ~checkInterval
    /\ fx # <<>> /\ fx[1] = Fx("done", <<>>)

\* C9 as stated: a probe result containing "minute", with done not yet
\* emitted, always emits done with timedOut true.
C9_Original ==
    [][\A out \in Outputs :
          (ProbeResult(out) /\ Includes(out, "minute") /\ ~sentDone)
          => doneLog' = Append(doneLog, TRUE)]_vars

\* C9: a probe result containing "minute", handled in a session already
\* marked launched and with done not yet emitted, emits done with timedOut
\* true; done carries timedOut true only for such a result.
C9_TimeoutDone ==
    /\ [][\A out \in Outputs :
            (ProbeResult(out) /\ Includes(out, "minute")
                /\ isLaunched /\ ~sentDone)
            => (doneLog' = Append(doneLog, TRUE)
                /\ fx'[1] = Fx("done", <<"timedOut">>))]_vars
    /\ [][(doneLog' # doneLog /\ doneLog'[Len(doneLog')]) =>
            \E out \in BagToSet(inflight) :
                /\ Includes(out, "minute")
                /\ inflight' = inflight (-) SetToBag({out})]_vars

C9_Witness ==
    doneLog = <<TRUE>> /\ fx # <<>> /\ fx[1] = Fx("done", <<"timedOut">>)

\* C10: every chunk produces exactly one inc event carrying the chunk
\* unchanged, emitted before anything the sequencer does for that chunk.
C10_IncFirst ==
    [][\A e \in Chunks :
          OnData(e) =>
              /\ fx' # <<>>
              /\ fx'[1] = Inc(e)
              /\ Cardinality({j \in DOMAIN fx' : fx'[j].k = "inc"}) = 1]_vars

\* a chunk was forwarded and then triggered the removal of the environment
C10_Witness == fx = <<Inc(<<"x", arrow>>), Fx("rm", <<>>)>>

\* the commands the catalog entry with a post-step yields for main.test.c
ExpectedStep1 == <<"gcc", "-o", "out", " ", "main", ".", "test", ".", "c", "\r">>
ExpectedStep2 == <<"./", "main", ".", "test", "\r">>

\* C11: with a post-step, a marker-only chunk received while step1 is unsent
\* leads to step1 (command, main file name, carriage return) being written,
\* a later chunk containing the marker leads to step2 (template with the
\* name minus its extension, carriage return) being written, in that order.
C11_TwoStepDelivery ==
    /\ [](HasPostStep =>
            written \in {<<>>, <<ExpectedStep1>>, <<ExpectedStep1, ExpectedStep2>>})
    /\ (HasPostStep /\ fx = <<Inc(<<arrow>>), Fx("setTimeout", <<"s1">>)>>)
          ~> (written # <<>> /\ written[1] = ExpectedStep1)
    /\ (HasPostStep /\ \E e \in Chunks :
                          fx = <<Inc(e), Fx("setTimeout", <<"s2">>)>>)
          ~> (written = <<ExpectedStep1, ExpectedStep2>>)

C11_Witness ==
    /\ HasPostStep /\ written = <<ExpectedStep1, ExpectedStep2>>
    /\ fx = <<Fx("write", ExpectedStep2)>>

\* an event emission among the effects f
Emits(f) == \E j \in DOMAIN f : f[j].k \in {"inc", "launched", "done", "throw"}

\* C12: push(), resize() and stop() never throw to the caller, also on a
\* dead pty or before exec(); they change none of the session flags, emit
\* no event and leave the polling timer as it is; stop() can be repeated.
C12_RelayFrame ==
    [][(Push \/ Resize \/ Stop) =>
          /\ UNCHANGED <<sentStep1, sentStep2, isLaunched, sentDone,
                         launchedCount, doneLog, checkInterval, phase, error>>
          /\ ~Emits(fx')]_vars

\* stop() was called again after an earlier removal, with the poll running
C12_Witness ==
    /\ phase = "running" /\ checkInterval /\ rmCalls >= 1 /\ proc = "dead"
    /\ fx = <<Fx("kill", <<>>), Fx("setTimeout", <<"rm">>)>>

\* C13: step1 is written at most once and step2 at most once per session,
\* also when several deliveries were scheduled inside the debounce window.
C13_EachStepOnce ==
    phase = "running" =>
        /\ Cardinality({j \in DOMAIN written : written[j] = step1}) <= 1
        /\ Cardinality({j \in DOMAIN written : written[j] = step2}) <= 1
        /\ Len(written) <= 2

\* step1 was written while a second delivery of it is still pending
C13_Witness ==
    /\ phase = "running" /\ sentStep1 /\ written # <<>>
    /\ \E j \in DOMAIN timers : timers[j] = "s1"

\* C14: teardown reached from the Lifecycle Monitor also issues the removal
\* of the environment: once a timeout-triggered done has been emitted, a
\* removal call has been issued.
C14_CleanUpRemoves ==
    (fx # <<>> /\ fx[1] = Fx("done", <<"timedOut">>)) => rmCalls >= 1

\* C15: a chunk makes the sequencer issue a removal exactly when it contains
\* the marker and both steps are recorded as sent; such a chunk causes no
\* write and no scheduling, and no chunk before step1 is delivered removes.
C15_FastPathExact ==
    [][\A e \in Chunks :
          OnData(e) =>
              /\ (rmCalls' = rmCalls + 1)
                    <=> (Includes(e, arrow) /\ sentStep1 /\ sentStep2)
              /\ rmCalls' # rmCalls =>
                    /\ fx' = <<Inc(e), Fx("rm", <<>>)>>
                    /\ timers' = timers /\ written' = written
              /\ ~sentStep1 => (rmCalls' = rmCalls /\ fx' # <<Inc(e), Fx("rm", <<>>)>>)
              /\ rmCalls' = rmCalls => \A j \in DOMAIN fx' : fx'[j].k # "rm"]_vars

C15_Witness ==
    sentStep1 /\ sentStep2 /\ rmCalls = 1 /\ fx = <<Inc(<<arrow>>), Fx("rm", <<>>)>>

\* C16: once a chunk has taken the fast path the final-arrow-seen flag is
\* set (so that later chunks outside rules 1 to 3 are answered by an erase).
C16_FinalArrowSet ==
    (Len(fx) = 2 /\ fx[1].k = "inc" /\ fx[2].k = "rm") => receivedFinalArrow

\* C17: step1 sent, step2 sent, launched and done-emitted never go back from
\* true to false, whatever handler, timer, callback or relay call runs.
C17_FlagsMonotonic ==
    [][/\ sentStep1 => sentStep1'
       /\ sentStep2 => sentStep2'
       /\ isLaunched => isLaunched'
       /\ sentDone => sentDone']_vars

\* all four flags are set and a relay call ran afterwards
C17_Witness ==
    /\ sentStep1 /\ sentStep2 /\ isLaunched /\ sentDone
    /\ fx = <<Fx("warn", <<>>)>>

\* C18: a probe result handled after done has been emitted produces no
\* launched and no done event, whatever its output.
C18_LateProbeSilent ==
    [][\A out \in Outputs :
          (ProbeResult(out) /\ sentDone) =>
              /\ doneLog' = doneLog
              /\ launchedCount' = launchedCount
              /\ fx' = <<>>
              /\ UNCHANGED <<isLaunched, sentDone, checkInterval, proc>>]_vars

\* done was emitted and the last handler, a probe callback, did nothing: no
\* step delivery can be the silent handler while nothing has been written
C18_Witness ==
    /\ sentDone /\ Len(doneLog) = 1 /\ launchedCount = 1
    /\ fx = <<>> /\ written = <<>>

\* C19: without any stop(), the removal call is issued at most once.  A
\* chunk is handled only while the pty is alive, which in a session means
\* that stop() has not been called, so every removal counted is the
\* coordinator's own.
C19_RemovalOnce ==
    [][\A e \in Chunks : OnData(e) => rmCalls' <= 1]_vars

\* C20: done is never emitted in a session that has not emitted launched.
C20_LaunchedBeforeDone ==
    /\ [](doneLog # <<>> => (launchedCount >= 1 /\ isLaunched))
    /\ [][doneLog' # doneLog => (isLaunched /\ launchedCount >= 1)]_vars

\* a timeout-triggered done after launched, with the container still up
C20_Witness ==
    launchedCount = 1 /\ doneLog = <<TRUE>> /\ env = "old"

====
